---- MODULE Spec2Model ----
(***************************************************************************)
(* Model of png2webp.py: convert_images_in_directory runs convert_image    *)
(* for every discovered PNG on a ThreadPoolExecutor of max_threads workers *)
(* gated by a semaphore, accumulates the size reduction in a shared        *)
(* nonlocal and prints a summary after the pool has drained.               *)
(***************************************************************************)
EXTENDS Integers, FiniteSets, Sequences, TLC

\* Bounds of the model.
MaxFiles == 2
MaxCpu == 6
MaxEntries == 2
MaxDigits == 6

\* File sizes the jobs can observe (original_size, new_size).
SrcSizes == {3}
DstSizes == {1, 4}

\* Access/modify times of a source file, and of a file that was just written.
SourceStat == [atime |-> 2, mtime |-> 1]
FreshStat == [atime |-> 3, mtime |-> 3]
NoStat == [atime |-> 0, mtime |-> 0]
NoFile == [exists |-> FALSE, stat |-> NoStat, comment |-> FALSE]

Min(a, b) == IF a < b THEN a ELSE b
Max(a, b) == IF a > b THEN a ELSE b

VARIABLES
    cpu_count,             \* os.cpu_count()
    delete_original,       \* --delete
    total_files,           \* len(files); the files are 1..total_files
    max_threads,           \* line 149
    semaphore,             \* permits left in threading.Semaphore(max_threads)
    main_pc,               \* position of convert_images_in_directory
    pc,                    \* position of each file's job
    error,                 \* the step whose exception ended the job
    png_info,              \* get_png_info result: TRUE = a mapping, FALSE = None
    stamp,                 \* (access_time, modify_time) locals of convert_image
    original_size,         \* local of convert_image (line 73)
    new_size,              \* local of convert_image (line 85)
    invocations,           \* number of convert_image calls made for each file
    size_reduction,        \* local of convert_image / result of thread_task
    loaded,                \* value of total_size_reduction read by the += of line 157
    total_size_reduction,  \* the shared nonlocal
    pbar_n,                \* tqdm progress counter
    src_exists,            \* the source file is on disk
    src_stat,              \* access/modify times of the source file
    dst,                   \* the destination file on disk
    collected,             \* futures already yielded by as_completed
    info_items,            \* png_info.items(): <<key, value>> pairs in insertion order
    item_idx,              \* entries already consumed by the loop of line 92
    png_info_data,         \* the text built by lines 91-100
    cm_pc,                 \* position in lines 89-109
    fs_input,              \* argument of format_size, base-1024 digits, lowest first
    fs_size,               \* local size of format_size: integer and fractional digits
    fs_unit,               \* index of the loop variable unit
    fs_result,             \* value returned by format_size
    fs_pc                  \* position in format_size

vars == <<cpu_count, delete_original, total_files, max_threads, semaphore,
          main_pc, pc, error, png_info, stamp, original_size, new_size, size_reduction,
          new_size, invocations, loaded, total_size_reduction, pbar_n,
          src_exists, src_stat, dst, collected, info_items, item_idx,
          png_info_data, cm_pc, fs_input, fs_size, fs_unit, fs_result, fs_pc>>

jobvars == <<png_info, stamp, original_size, new_size, invocations,
            size_reduction, src_exists, src_stat, dst>>
cmvars == <<info_items, item_idx, png_info_data, cm_pc>>
fsvars == <<fs_input, fs_size, fs_unit, fs_result, fs_pc>>
envvars == <<cpu_count, delete_original, total_files, max_threads, cmvars, fsvars>>

Files == 1..total_files

\* Positions of a job between taking a pool worker and handing it back.
RunningPcs == {"acquire", "open", "save", "exif", "utime", "remove", "read", "write", "finish"}
\* Positions inside convert_image (semaphore held, lines 36-140).
ConvertPcs == {"open", "save", "exif", "utime", "remove"}
\* Positions inside the with-semaphore block of thread_task.
HoldingPcs == ConvertPcs \cup {"read", "write", "finish"}

Running == {f \in Files : pc[f] \in RunningPcs}
InConvert == {f \in Files : pc[f] \in ConvertPcs}
Holding == {f \in Files : pc[f] \in HoldingPcs}

\* line 149: max_threads = min(4, os.cpu_count() - 1)
MaxThreadsNoMinusOne(cpu) == Min(4, cpu)
MaxThreads(cpu) == Min(4, cpu - 1)

RECURSIVE SumOver(_, _)
SumOver(S, val) ==
    IF S = {} THEN 0
    ELSE LET f == CHOOSE x \in S : TRUE IN val[f] + SumOver(S \ {f}, val)

\* Result record of format_size: None, or the number with two decimals and the unit.
FsNone == [none |-> TRUE, whole |-> 0, cents |-> 0, unit |-> ""]
\* No metadata text is being built / no format_size call is in progress.
CommentIdle ==
    /\ info_items = <<>>
    /\ item_idx = 0
    /\ png_info_data = <<>>
    /\ cm_pc = "idle"
SizeIdle ==
    /\ fs_input = <<>>
    /\ fs_size = [int |-> <<>>, frac |-> <<>>]
    /\ fs_unit = 0
    /\ fs_result = FsNone
    /\ fs_pc = "idle"

\* State after lines 144-150: files globbed, counters zeroed, semaphore built.
BatchInit ==
    /\ cpu_count \in 1..MaxCpu
    /\ delete_original \in BOOLEAN
    /\ total_files \in 0..MaxFiles
    /\ max_threads = MaxThreads(cpu_count)
    /\ semaphore = max_threads
    /\ main_pc = "setup"
    /\ pc = [f \in Files |-> "discovered"]
    /\ error = [f \in Files |-> "none"]
    /\ png_info = [f \in Files |-> FALSE]
    /\ stamp = [f \in Files |-> NoStat]
    /\ original_size = [f \in Files |-> 0]
    /\ new_size = [f \in Files |-> 0]
    /\ invocations = [f \in Files |-> 0]
    /\ size_reduction = [f \in Files |-> 0]
    /\ loaded = [f \in Files |-> 0]
    /\ total_size_reduction = 0
    /\ pbar_n = 0
    /\ src_exists = [f \in Files |-> TRUE]
    /\ src_stat = [f \in Files |-> SourceStat]
    /\ dst = [f \in Files |-> NoFile]
    /\ collected = {}

Init == BatchInit /\ CommentIdle /\ SizeIdle

\* lines 162-164: ThreadPoolExecutor(max_workers=max_threads) raises ValueError
\* for max_workers <= 0; otherwise every file is submitted to the pool.
CreateExecutor ==
    /\ main_pc = "setup"
    /\ IF max_threads <= 0
       THEN /\ main_pc' = "crashed"
            /\ pc' = pc
       ELSE /\ main_pc' = "waiting"
            /\ pc' = [f \in Files |-> "queued"]
    /\ UNCHANGED <<envvars, semaphore, error, loaded, total_size_reduction,
                   pbar_n, collected, jobvars>>

\* An idle pool worker takes the oldest queued work item and calls thread_task.
WorkerTake(f) ==
    /\ main_pc = "waiting"
    /\ pc[f] = "queued"
    /\ \A g \in Files : g < f => pc[g] # "queued"
    /\ Cardinality(Running) < max_threads
    /\ pc' = [pc EXCEPT ![f] = "acquire"]
    /\ UNCHANGED <<envvars, semaphore, main_pc, error, loaded,
                   total_size_reduction, pbar_n, collected, jobvars>>

\* line 154: with semaphore (acquire)
Acquire(f) ==
    /\ pc[f] = "acquire"
    /\ semaphore > 0
    /\ semaphore' = semaphore - 1
    /\ pc' = [pc EXCEPT ![f] = "open"]
    /\ UNCHANGED <<envvars, main_pc, error, loaded, total_size_reduction,
                   pbar_n, collected, jobvars>>

\* An exception leaves convert_image and thread_task: the with block releases
\* the semaphore and the future stores the exception.
RaiseKeepPermit(f, kind) ==
    /\ pc' = [pc EXCEPT ![f] = "failed"]
    /\ error' = [error EXCEPT ![f] = kind]
    /\ UNCHANGED semaphore
Raise(f, kind) ==
    /\ pc' = [pc EXCEPT ![f] = "failed"]
    /\ error' = [error EXCEPT ![f] = kind]
    /\ semaphore' = semaphore + 1

\* lines 59-73: get_png_info (its own failure yields None), Image.open,
\* getatime/getmtime, getsize.  Image.open or a stat call may raise.
OpenSource(f) ==
    /\ pc[f] = "open"
    /\ invocations' = [invocations EXCEPT ![f] = @ + 1]
    /\ \/ /\ Raise(f, "open")
          /\ UNCHANGED <<png_info, stamp, original_size>>
       \/ /\ \E info \in BOOLEAN : png_info' = [png_info EXCEPT ![f] = info]
          /\ stamp' = [stamp EXCEPT ![f] = src_stat[f]]
          /\ \E size \in SrcSizes :
                original_size' = [original_size EXCEPT ![f] = size]
          /\ pc' = [pc EXCEPT ![f] = "save"]
          /\ UNCHANGED <<error, semaphore>>
    /\ UNCHANGED <<envvars, main_pc, loaded, total_size_reduction, pbar_n,
                   collected, new_size, size_reduction, src_exists, src_stat, dst>>

\* lines 75-86: image.save writes the destination; new_size is measured and
\* size_reduction computed.  A failing save may leave a partial destination.
SaveDeletesSource(f) ==
    /\ pc[f] = "save"
    /\ \/ /\ Raise(f, "save")
          /\ \E left \in BOOLEAN :
                dst' = [dst EXCEPT ![f] =
                          IF left THEN [NoFile EXCEPT !.exists = TRUE, !.stat = FreshStat]
                                  ELSE NoFile]
          /\ UNCHANGED <<new_size, size_reduction, src_exists>>
       \/ /\ dst' = [dst EXCEPT ![f] = [exists |-> TRUE, stat |-> FreshStat, comment |-> FALSE]]
          /\ \E size \in DstSizes :
                /\ new_size' = [new_size EXCEPT ![f] = size]
                /\ size_reduction' = [size_reduction EXCEPT ![f] = original_size[f] - size]
          /\ src_exists' = [src_exists EXCEPT ![f] = ~delete_original]
          /\ pc' = [pc EXCEPT ![f] = "exif"]
          /\ UNCHANGED <<error, semaphore>>
    /\ UNCHANGED <<envvars, main_pc, loaded, total_size_reduction, pbar_n,
                   collected, invocations, png_info, stamp, original_size, src_stat>>
SaveClamped(f) ==
    /\ pc[f] = "save"
    /\ \/ /\ Raise(f, "save")
          /\ \E left \in BOOLEAN :
                dst' = [dst EXCEPT ![f] =
                          IF left THEN [NoFile EXCEPT !.exists = TRUE, !.stat = FreshStat]
                                  ELSE NoFile]
          /\ UNCHANGED <<new_size, size_reduction>>
       \/ /\ dst' = [dst EXCEPT ![f] = [exists |-> TRUE, stat |-> FreshStat, comment |-> FALSE]]
          /\ \E size \in DstSizes :
                /\ new_size' = [new_size EXCEPT ![f] = size]
                /\ size_reduction' = [size_reduction EXCEPT ![f] = Max(0, original_size[f] - size)]
          /\ pc' = [pc EXCEPT ![f] = "exif"]
          /\ UNCHANGED <<error, semaphore>>
    /\ UNCHANGED <<envvars, main_pc, loaded, total_size_reduction, pbar_n,
                   collected, invocations, png_info, stamp, original_size,
                   src_exists, src_stat>>
Save(f) ==
    /\ pc[f] = "save"
    /\ \/ /\ Raise(f, "save")
          /\ \E left \in BOOLEAN :
                dst' = [dst EXCEPT ![f] =
                          IF left THEN [NoFile EXCEPT !.exists = TRUE, !.stat = FreshStat]
                                  ELSE NoFile]
          /\ UNCHANGED <<new_size, size_reduction>>
       \/ /\ dst' = [dst EXCEPT ![f] = [exists |-> TRUE, stat |-> FreshStat, comment |-> FALSE]]
          /\ \E size \in DstSizes :
                /\ new_size' = [new_size EXCEPT ![f] = size]
                /\ size_reduction' = [size_reduction EXCEPT ![f] = original_size[f] - size]
          /\ pc' = [pc EXCEPT ![f] = "exif"]
          /\ UNCHANGED <<error, semaphore>>
    /\ UNCHANGED <<envvars, main_pc, loaded, total_size_reduction, pbar_n,
                   collected, invocations, png_info, stamp, original_size, src_exists, src_stat>>

\* lines 88-112: with metadata, piexif.insert rewrites the destination in
\* place (fresh times); without metadata only a message is printed.
InsertExifNoneRaises(f) ==
    /\ pc[f] = "exif"
    /\ IF png_info[f]
       THEN \/ /\ Raise(f, "exif")
               /\ UNCHANGED dst
            \/ /\ dst' = [dst EXCEPT ![f].comment = TRUE, ![f].stat = FreshStat]
               /\ pc' = [pc EXCEPT ![f] = "utime"]
               /\ UNCHANGED <<error, semaphore>>
       ELSE /\ Raise(f, "exif")
            /\ UNCHANGED dst
    /\ UNCHANGED <<envvars, main_pc, loaded, total_size_reduction, pbar_n,
                   collected, invocations, png_info, stamp, original_size,
                   new_size, size_reduction, src_exists, src_stat>>
InsertExifCountsFailure(f) ==
    /\ pc[f] = "exif"
    /\ IF png_info[f]
       THEN \/ /\ Raise(f, "exif")
               /\ total_size_reduction' = total_size_reduction + size_reduction[f]
               /\ UNCHANGED dst
            \/ /\ dst' = [dst EXCEPT ![f].comment = TRUE, ![f].stat = FreshStat]
               /\ pc' = [pc EXCEPT ![f] = "utime"]
               /\ UNCHANGED <<error, semaphore, total_size_reduction>>
       ELSE /\ pc' = [pc EXCEPT ![f] = "utime"]
            /\ UNCHANGED <<dst, error, semaphore, total_size_reduction>>
    /\ UNCHANGED <<envvars, main_pc, loaded, pbar_n,
                   collected, invocations, png_info, stamp, original_size,
                   new_size, size_reduction, src_exists, src_stat>>
InsertExifRollsBack(f) ==
    /\ pc[f] = "exif"
    /\ IF png_info[f]
       THEN \/ /\ Raise(f, "exif")
               /\ dst' = [dst EXCEPT ![f] = NoFile]
            \/ /\ dst' = [dst EXCEPT ![f].comment = TRUE, ![f].stat = FreshStat]
               /\ pc' = [pc EXCEPT ![f] = "utime"]
               /\ UNCHANGED <<error, semaphore>>
       ELSE /\ pc' = [pc EXCEPT ![f] = "utime"]
            /\ UNCHANGED <<dst, error, semaphore>>
    /\ UNCHANGED <<envvars, main_pc, loaded, total_size_reduction, pbar_n,
                   collected, invocations, png_info, stamp, original_size,
                   new_size, size_reduction, src_exists, src_stat>>
InsertExif(f) ==
    /\ pc[f] = "exif"
    /\ IF png_info[f]
       THEN \/ /\ Raise(f, "exif")
               /\ UNCHANGED dst
            \/ /\ dst' = [dst EXCEPT ![f].comment = TRUE, ![f].stat = FreshStat]
               /\ pc' = [pc EXCEPT ![f] = "utime"]
               /\ UNCHANGED <<error, semaphore>>
       ELSE /\ pc' = [pc EXCEPT ![f] = "utime"]
            /\ UNCHANGED <<dst, error, semaphore>>
    /\ UNCHANGED <<envvars, main_pc, loaded, total_size_reduction, pbar_n,
                   collected, invocations, png_info, stamp, original_size, new_size, size_reduction,
                   src_exists, src_stat>>

\* lines 114-134: SetFileTime (Windows) and os.utime put the recorded source
\* times on the destination.  An exception of CreateFile or SetFileTime leaves
\* the destination's times as they were; an exception of handle.Close or
\* os.utime comes after SetFileTime has already applied them.
ApplyTimesToSource(f) ==
    /\ pc[f] = "utime"
    /\ \/ /\ Raise(f, "utime")
          /\ UNCHANGED src_stat
       \/ /\ src_stat' = [src_stat EXCEPT ![f] = dst[f].stat]
          /\ pc' = [pc EXCEPT ![f] = "remove"]
          /\ UNCHANGED <<error, semaphore>>
    /\ UNCHANGED <<envvars, main_pc, loaded, total_size_reduction, pbar_n,
                   collected, invocations, png_info, stamp, original_size, new_size, size_reduction,
                   src_exists, dst>>
ApplyTimesSwallow(f) ==
    /\ pc[f] = "utime"
    /\ \/ /\ error' = [error EXCEPT ![f] = "utime"]
          /\ pc' = [pc EXCEPT ![f] = "remove"]
          /\ UNCHANGED <<dst, semaphore>>
       \/ /\ dst' = [dst EXCEPT ![f].stat = stamp[f]]
          /\ pc' = [pc EXCEPT ![f] = "remove"]
          /\ UNCHANGED <<error, semaphore>>
    /\ UNCHANGED <<envvars, main_pc, loaded, total_size_reduction, pbar_n,
                   collected, invocations, png_info, stamp, original_size, new_size, size_reduction,
                   src_exists, src_stat>>
ApplyTimes(f) ==
    /\ pc[f] = "utime"
    /\ \/ /\ Raise(f, "utime")
          /\ \E applied \in BOOLEAN :
                dst' = IF applied THEN [dst EXCEPT ![f].stat = stamp[f]] ELSE dst
       \/ /\ dst' = [dst EXCEPT ![f].stat = stamp[f]]
          /\ pc' = [pc EXCEPT ![f] = "remove"]
          /\ UNCHANGED <<error, semaphore>>
    /\ UNCHANGED <<envvars, main_pc, loaded, total_size_reduction, pbar_n,
                   collected, invocations, png_info, stamp, original_size, new_size, size_reduction,
                   src_exists, src_stat>>

\* lines 136-140: os.remove(file) when delete_original, then return.
RemoveAlways(f) ==
    /\ pc[f] = "remove"
    /\ \/ /\ Raise(f, "remove")
          /\ UNCHANGED src_exists
       \/ /\ src_exists' = [src_exists EXCEPT ![f] = FALSE]
          /\ pc' = [pc EXCEPT ![f] = "read"]
          /\ UNCHANGED <<error, semaphore>>
    /\ UNCHANGED <<envvars, main_pc, loaded, total_size_reduction, pbar_n,
                   collected, invocations, png_info, stamp, original_size, new_size, size_reduction,
                   src_stat, dst>>
RemoveOriginal(f) ==
    /\ pc[f] = "remove"
    /\ IF delete_original
       THEN \/ /\ Raise(f, "remove")
               /\ UNCHANGED src_exists
            \/ /\ src_exists' = [src_exists EXCEPT ![f] = FALSE]
               /\ pc' = [pc EXCEPT ![f] = "read"]
               /\ UNCHANGED <<error, semaphore>>
       ELSE /\ pc' = [pc EXCEPT ![f] = "read"]
            /\ UNCHANGED <<src_exists, error, semaphore>>
    /\ UNCHANGED <<envvars, main_pc, loaded, total_size_reduction, pbar_n,
                   collected, invocations, png_info, stamp, original_size, new_size, size_reduction,
                   src_stat, dst>>

\* line 157, first half of +=: load total_size_reduction (after the sleep).
ReadTotal(f) ==
    /\ pc[f] = "read"
    /\ loaded' = [loaded EXCEPT ![f] = total_size_reduction]
    /\ pc' = [pc EXCEPT ![f] = "write"]
    /\ UNCHANGED <<envvars, semaphore, main_pc, error, total_size_reduction,
                   pbar_n, collected, jobvars>>

\* line 157, second half of +=: store the sum computed from the loaded value.
WriteTotal(f) ==
    /\ pc[f] = "write"
    /\ total_size_reduction' = loaded[f] + size_reduction[f]
    /\ loaded' = [loaded EXCEPT ![f] = 0]
    /\ pc' = [pc EXCEPT ![f] = "finish"]
    /\ UNCHANGED <<envvars, semaphore, main_pc, error, pbar_n, collected, jobvars>>

\* lines 158-160: progress bar advanced, result returned, semaphore released,
\* the future completes and the worker is idle again.
FinishResubmits(f) ==
    /\ pc[f] = "finish"
    /\ pbar_n' = pbar_n + 1
    /\ semaphore' = semaphore + 1
    /\ pc' = [pc EXCEPT ![f] = IF invocations[f] < 2 THEN "queued" ELSE "done"]
    /\ UNCHANGED <<envvars, main_pc, error, loaded, total_size_reduction,
                   collected, jobvars>>
Finish(f) ==
    /\ pc[f] = "finish"
    /\ pbar_n' = pbar_n + 1
    /\ semaphore' = semaphore + 1
    /\ pc' = [pc EXCEPT ![f] = "done"]
    /\ UNCHANGED <<envvars, main_pc, error, loaded, total_size_reduction,
                   collected, jobvars>>

\* lines 165-169: as_completed yields a finished future; future.result()
\* re-raises the job's exception, which the loop catches and prints.
CollectNoTry(f) ==
    /\ main_pc = "waiting"
    /\ pc[f] \in {"done", "failed"}
    /\ f \notin collected
    /\ collected' = collected \cup {f}
    /\ main_pc' = IF pc[f] = "failed" THEN "crashed" ELSE main_pc
    /\ UNCHANGED <<envvars, semaphore, pc, error, loaded,
                   total_size_reduction, pbar_n, jobvars>>
Collect(f) ==
    /\ main_pc = "waiting"
    /\ pc[f] \in {"done", "failed"}
    /\ f \notin collected
    /\ collected' = collected \cup {f}
    /\ UNCHANGED <<envvars, semaphore, main_pc, pc, error, loaded,
                   total_size_reduction, pbar_n, jobvars>>

\* lines 170-172: the loop is exhausted, the executor and the bar are closed,
\* the two summary lines are printed.
PrintSummaryEarly ==
    /\ main_pc = "waiting"
    /\ main_pc' = "summary"
    /\ UNCHANGED <<envvars, semaphore, pc, error, loaded,
                   total_size_reduction, pbar_n, collected, jobvars>>
PrintSummary ==
    /\ main_pc = "waiting"
    /\ collected = Files
    /\ main_pc' = "summary"
    /\ UNCHANGED <<envvars, semaphore, pc, error, loaded,
                   total_size_reduction, pbar_n, collected, jobvars>>

Next ==
    \/ CreateExecutor
    \/ \E f \in Files : WorkerTake(f)
    \/ \E f \in Files : Acquire(f)
    \/ \E f \in Files : OpenSource(f)
    \/ \E f \in Files : Save(f)
    \/ \E f \in Files : InsertExif(f)
    \/ \E f \in Files : ApplyTimes(f)
    \/ \E f \in Files : RemoveOriginal(f)
    \/ \E f \in Files : ReadTotal(f)
    \/ \E f \in Files : WriteTotal(f)
    \/ \E f \in Files : Finish(f)
    \/ \E f \in Files : Collect(f)
    \/ PrintSummary

Spec == Init /\ [][Next]_vars

\* The threads of the pool and the main thread are scheduled fairly by the OS.
Fairness ==
    /\ WF_vars(CreateExecutor)
    /\ WF_vars(PrintSummary)
    /\ \A f \in 1..MaxFiles :
          /\ WF_vars(f \in Files /\ WorkerTake(f))
          /\ WF_vars(f \in Files /\ Acquire(f))
          /\ WF_vars(f \in Files /\ OpenSource(f))
          /\ WF_vars(f \in Files /\ Save(f))
          /\ WF_vars(f \in Files /\ InsertExif(f))
          /\ WF_vars(f \in Files /\ ApplyTimes(f))
          /\ WF_vars(f \in Files /\ RemoveOriginal(f))
          /\ WF_vars(f \in Files /\ ReadTotal(f))
          /\ WF_vars(f \in Files /\ WriteTotal(f))
          /\ WF_vars(f \in Files /\ Finish(f))
          /\ WF_vars(f \in Files /\ Collect(f))

FairSpec == Init /\ [][Next]_vars /\ Fairness

TypeOK ==
    /\ cpu_count \in 1..MaxCpu
    /\ total_files \in 0..MaxFiles
    /\ main_pc \in {"setup", "waiting", "crashed", "summary"}
    /\ \A f \in Files : pc[f] \in {"discovered", "queued", "done", "failed"} \cup RunningPcs

\* No batch is running (the pure helpers are exercised on their own).
BatchIdle ==
    /\ BatchInit
    /\ cpu_count = 1
    /\ ~delete_original
    /\ total_files = 0
batchvars == <<cpu_count, delete_original, total_files, max_threads, semaphore,
               main_pc, pc, error, png_info, stamp, original_size, size_reduction,
               new_size, invocations, loaded, total_size_reduction, pbar_n,
               src_exists, src_stat, dst, collected>>

\* Text is a sequence of tokens: a whitespace character or a run of characters
\* ending in a non-whitespace one.
Whitespace == {" ", "\n"}
Keys == {"parameters", "foo", "baz"}
Values == {<<>>, <<"a, b, c">>, <<"bar">>, <<"qux">>, <<"qux", " ">>,
           <<"x", "\n", "y">>, <<"\n">>}

\* Ordered mappings with distinct keys and at most MaxEntries entries.
RECURSIVE Mappings(_)
Mappings(n) ==
    IF n = 0 THEN {<<>>}
    ELSE LET shorter == Mappings(n - 1) IN
         shorter \cup
         {Append(m, <<k, v>>) : m \in {x \in shorter : Len(x) = n - 1},
                                k \in Keys, v \in Values}
DistinctKeys(m) == \A i, j \in 1..Len(m) : i # j => m[i][1] # m[j][1]

\* str.rstrip(): drop the trailing whitespace characters.
RECURSIVE RStrip(_)
RStrip(t) ==
    IF t # <<>> /\ t[Len(t)] \in Whitespace
    THEN RStrip(SubSeq(t, 1, Len(t) - 1))
    ELSE t

CommentInit ==
    /\ BatchIdle
    /\ SizeIdle
    /\ info_items \in {m \in Mappings(MaxEntries) : DistinctKeys(m)}
    /\ item_idx = 0
    /\ png_info_data = <<>>
    /\ cm_pc = "loop"

\* lines 92-98: one iteration of the loop over png_info.items()
AppendLineAlwaysPrefixed ==
    /\ cm_pc = "loop"
    /\ item_idx < Len(info_items)
    /\ LET key == info_items[item_idx + 1][1]
           value == info_items[item_idx + 1][2]
       IN png_info_data' = png_info_data \o <<key, ":", " ">> \o value \o <<"\n">>
    /\ item_idx' = item_idx + 1
    /\ UNCHANGED <<batchvars, fsvars, info_items, cm_pc>>
AppendLine ==
    /\ cm_pc = "loop"
    /\ item_idx < Len(info_items)
    /\ LET key == info_items[item_idx + 1][1]
           value == info_items[item_idx + 1][2]
       IN png_info_data' =
             IF key = "parameters"
             THEN png_info_data \o value \o <<"\n">>
             ELSE png_info_data \o <<key, ":", " ">> \o value \o <<"\n">>
    /\ item_idx' = item_idx + 1
    /\ UNCHANGED <<batchvars, fsvars, info_items, cm_pc>>

\* lines 100-109: the loop is over; rstrip, then the text goes into the
\* UserComment of the destination.
StripComment ==
    /\ cm_pc = "loop"
    /\ item_idx = Len(info_items)
    /\ png_info_data' = RStrip(png_info_data)
    /\ cm_pc' = "done"
    /\ UNCHANGED <<batchvars, fsvars, info_items, item_idx>>

CommentNext == AppendLine \/ StripComment
CommentSpec == CommentInit /\ [][CommentNext]_vars

\* format_size(size): size is kept exactly as base-1024 digits, the integer
\* part lowest digit first and the fractional part highest digit first.
Digits == {0, 1, 512, 1023}
Units == <<"B", "KB", "MB", "GB", "TB">>

RECURSIVE DigitSeqs(_)
DigitSeqs(n) ==
    IF n = 0 THEN {<<>>}
    ELSE LET shorter == DigitSeqs(n - 1) IN
         shorter \cup {Append(d, x) : d \in {y \in shorter : Len(y) = n - 1}, x \in Digits}
\* A non-negative integer: one digit, or several with a non-zero top digit.
Canonical(d) == Len(d) >= 1 /\ (Len(d) > 1 => d[Len(d)] # 0)

\* 100 * 0.f1f2...: <<carry into the integer part, fractional digits>>
RECURSIVE TimesHundred(_)
TimesHundred(frac) ==
    IF frac = <<>> THEN <<0, <<>>>>
    ELSE LET rest == TimesHundred(Tail(frac))
             t == 100 * Head(frac) + rest[1]
         IN <<t \div 1024, <<t % 1024>> \o rest[2]>>

\* f"{size:.2f}": hundredths of the fractional part, rounded half to even.
Hundredths(frac) ==
    LET p == TimesHundred(frac)
        q == p[1]
        r == p[2]
        up == /\ r # <<>>
              /\ \/ r[1] > 512
                 \/ r[1] = 512 /\ \E i \in 2..Len(r) : r[i] # 0
                 \/ r[1] = 512 /\ (\A i \in 2..Len(r) : r[i] = 0) /\ q % 2 = 1
    IN IF up THEN q + 1 ELSE q
Formatted(size, unit) ==
    LET whole == IF size.int = <<>> THEN 0 ELSE size.int[1]
        h == Hundredths(size.frac)
    IN [none |-> FALSE,
        whole |-> IF h = 100 THEN whole + 1 ELSE whole,
        cents |-> IF h = 100 THEN 0 ELSE h,
        unit |-> unit]

\* size < 1024: the integer part has a single base-1024 digit
Below1024(size) == Len(size.int) <= 1

SizeInit ==
    /\ BatchIdle
    /\ CommentIdle
    /\ fs_input \in {d \in DigitSeqs(MaxDigits) : Canonical(d)}
    /\ fs_size = [int |-> fs_input, frac |-> <<>>]
    /\ fs_unit = 1
    /\ fs_result = FsNone
    /\ fs_pc = "loop"

\* lines 32-33: if size < 1024: return f"{size:.2f} {unit}"
FormatReturn ==
    /\ fs_pc = "loop"
    /\ fs_unit <= Len(Units)
    /\ Below1024(fs_size)
    /\ fs_result' = Formatted(fs_size, Units[fs_unit])
    /\ fs_pc' = "returned"
    /\ UNCHANGED <<batchvars, cmvars, fs_input, fs_size, fs_unit>>

\* line 34 and the next turn of line 31: size /= 1024, next unit
FormatDivide ==
    /\ fs_pc = "loop"
    /\ fs_unit <= Len(Units)
    /\ ~Below1024(fs_size)
    /\ fs_size' = [int |-> Tail(fs_size.int),
                   frac |-> <<Head(fs_size.int)>> \o fs_size.frac]
    /\ fs_unit' = fs_unit + 1
    /\ UNCHANGED <<batchvars, cmvars, fs_input, fs_result, fs_pc>>

\* lines 31-34: the for loop runs out of units and the function ends without
\* a return statement, i.e. returns None.
FormatExhausted ==
    /\ fs_pc = "loop"
    /\ fs_unit > Len(Units)
    /\ fs_result' = FsNone
    /\ fs_pc' = "returned"
    /\ UNCHANGED <<batchvars, cmvars, fs_input, fs_size, fs_unit>>

SizeNext == FormatReturn \/ FormatDivide \/ FormatExhausted
SizeSpec == SizeInit /\ [][SizeNext]_vars

Done == {f \in Files : pc[f] = "done"}
Failed == {f \in Files : pc[f] = "failed"}

\* C1: when every job of the batch succeeded, the total printed after the
\* pool has drained is the exact sum of the jobs' deltas (no update is lost).
C1_NoLostUpdate ==
    (main_pc = "summary" /\ Done = Files)
        => total_size_reduction = SumOver(Files, size_reduction)

\* C2: a job that raised never aborts the batch loop, and once the summary is
\* out every sibling has run to its own end: it is done (its += of line 157
\* executed) or failed by an exception of its own; with a single worker the
\* total is exactly the sum of the deltas of the jobs that are done.
C2_FailureIsolation ==
    (Failed # {}) =>
        /\ main_pc # "crashed"
        /\ main_pc = "summary" =>
              /\ \A g \in Files : pc[g] = "done" \/ (pc[g] = "failed" /\ error[g] # "none")
              /\ max_threads = 1 => total_size_reduction = SumOver(Done, size_reduction)
C2_Witness ==
    /\ main_pc = "summary"
    /\ max_threads = 1
    /\ total_files >= 2
    /\ pc[1] = "failed"
    /\ pc[2] = "done"
    /\ total_size_reduction = size_reduction[2]

\* C3: the worker count is max(1, min(4, available_parallelism - 1)), so the
\* pool can always be created.
C3_WorkerCount ==
    /\ max_threads = Max(1, Min(4, cpu_count - 1))
    /\ main_pc # "crashed"

\* C4: the number of jobs inside convert_image never exceeds the worker
\* count min(4, cpu_count - 1), however many files were discovered.
C4_BoundedConcurrency ==
    /\ Cardinality(InConvert) <= max_threads
    /\ Cardinality(InConvert) <= Min(4, cpu_count - 1)
C4_Witness ==
    /\ max_threads >= 1
    /\ Cardinality(InConvert) = max_threads
    /\ \E f \in Files : pc[f] = "queued"

\* C5: with delete_original the source is gone only once the destination is
\* written, carries the metadata (if any) and the source's times; a failed job
\* keeps its source; a job that is done has no source left.
C5_DeleteOnlyAfterSuccess ==
    delete_original =>
        \A f \in Files :
            /\ ~src_exists[f] =>
                  /\ pc[f] \in {"read", "write", "finish", "done"}
                  /\ dst[f].exists
                  /\ png_info[f] => dst[f].comment
                  /\ dst[f].stat = stamp[f]
            /\ pc[f] = "failed" => src_exists[f]
            /\ pc[f] = "done" => ~src_exists[f]
C5_Witness ==
    /\ delete_original
    /\ \E f, g \in Files :
          /\ pc[f] = "done" /\ ~src_exists[f]
          /\ pc[g] = "failed" /\ error[g] = "save" /\ src_exists[g]

\* C6: without delete_original every source file stays on disk, with its
\* times untouched, whatever happens to its job.
C6_SourcesRetained ==
    ~delete_original =>
        \A f \in Files : src_exists[f] /\ src_stat[f] = SourceStat
C6_Witness ==
    /\ ~delete_original
    /\ main_pc = "summary"
    /\ Done # {}
    /\ Failed # {}

\* C7 (as stated): only a source-open or a transcode failure fails a job; a
\* metadata-write, timestamp or delete failure is caught inside the job.
C7_OnlyOpenOrTranscodeFails ==
    \A f \in Files : pc[f] = "failed" => error[f] \in {"open", "save"}
\* C7 (amended): an exception at any step of convert_image (open, transcode,
\* metadata write, timestamps, delete) fails the job: a job whose step raised
\* is failed and never reaches the aggregate update, and the batch loop is
\* not aborted by it.
C7_EveryStepFailureFailsJob ==
    \A f \in Files :
        error[f] # "none" => (pc[f] = "failed" /\ main_pc # "crashed")
C7_Witness ==
    /\ main_pc = "summary"
    /\ \E f \in Files :
          /\ pc[f] = "failed"
          /\ error[f] = "utime"
          /\ dst[f].exists
          /\ f \in collected

\* C8: the summary is printed only when no job is pending or running.
C8_SummaryAfterDrain ==
    main_pc = "summary" => \A f \in Files : pc[f] \in {"done", "failed"}
C8_Witness ==
    /\ main_pc = "summary"
    /\ total_files >= 2
    /\ Done # {}
    /\ Failed # {}
    /\ delete_original

\* C9: under fair scheduling every batch eventually prints its summary, and
\* the summary of a batch whose jobs all failed shows a reduction of 0.
C9_AlwaysSummary ==
    <>(main_pc = "summary" /\ (Failed = Files => total_size_reduction = 0))

\* C10: once the timestamps are applied the destination carries the source's
\* access and modify times as recorded before the transcode, nothing later in
\* the job changes them, and the source's own times are never overwritten.
C10_TimestampRoundTrip ==
    \A f \in Files :
        /\ src_stat[f] = SourceStat
        /\ pc[f] \in {"remove", "read", "write", "finish", "done"} =>
              /\ stamp[f] = SourceStat
              /\ dst[f].stat = stamp[f]
C10_Witness ==
    \E f \in Files :
        /\ pc[f] = "done"
        /\ png_info[f]
        /\ dst[f].comment
        /\ dst[f].stat = SourceStat

\* Jobs whose += of line 157 has stored its sum.
Added == {f \in Files : pc[f] \in {"finish", "done"}}
AfterSave == {"exif", "utime", "remove", "read", "write", "finish", "done"}
AfterConvert == {"read", "write", "finish", "done"}

\* C11: the delta of a job is exactly original_size - new_size, negative
\* when the destination is larger, and it is added unclamped: with a single
\* worker the total is the sum of those differences over the jobs that added.
C11_ExactDelta ==
    /\ \A f \in Files :
          pc[f] \in AfterSave => size_reduction[f] = original_size[f] - new_size[f]
    /\ max_threads = 1 =>
          total_size_reduction =
              SumOver(Added, [g \in Files |-> original_size[g] - new_size[g]])
C11_Witness ==
    /\ main_pc = "summary"
    /\ max_threads = 1
    /\ total_size_reduction < 0
    /\ \E f \in Files :
          /\ pc[f] = "done"
          /\ new_size[f] > original_size[f]
          /\ size_reduction[f] < 0

\* C12: a job whose get_png_info yielded None never fails at the metadata
\* step and never writes a comment; when it returns, the destination exists
\* and carries the source's times.
C12_NoMetadataIsNoError ==
    \A f \in Files :
        ~png_info[f] =>
            /\ error[f] # "exif"
            /\ ~dst[f].comment
            /\ pc[f] \in AfterConvert =>
                  /\ dst[f].exists
                  /\ dst[f].stat = stamp[f]
                  /\ error[f] = "none"
C12_Witness ==
    \E f \in Files :
        /\ pc[f] = "done"
        /\ ~png_info[f]
        /\ dst[f].exists
        /\ ~dst[f].comment
        /\ dst[f].stat = SourceStat

\* C15: convert_image is never invoked twice for a file, and when the batch
\* has ended it has been invoked exactly once for every discovered file.
C15_ExactlyOnce ==
    /\ \A f \in Files : invocations[f] <= 1
    /\ main_pc \in {"summary", "crashed"} => \A f \in Files : invocations[f] = 1

\* C16: after the batch has drained the progress counter equals the number
\* of discovered files.
C16_ProcessedCount ==
    main_pc = "summary" => pbar_n = total_files

\* C17: the permits taken are exactly those of the jobs inside the with
\* block, and after the batch the semaphore holds max_threads permits again.
C17_PermitsReturned ==
    /\ semaphore + Cardinality(Holding) = max_threads
    /\ main_pc = "summary" => semaphore = max_threads
C17_Witness ==
    /\ main_pc = "summary"
    /\ semaphore = max_threads
    /\ max_threads = 1
    /\ total_files >= 2
    /\ pc[1] = "failed"
    /\ error[1] = "save"
    /\ pc[2] = "done"

\* C18: a job fails only from inside convert_image, the failing step leaves
\* total_size_reduction and the progress counter as they were, so does every
\* earlier step of that job, and a failed job never moves again.
C18_FailedJobContributesNothing ==
    [][\A f \in Files :
          /\ (pc[f] # "failed" /\ pc'[f] = "failed") => pc[f] \in ConvertPcs
          /\ (pc[f] \in ConvertPcs /\ pc'[f] # pc[f]) =>
                (total_size_reduction' = total_size_reduction /\ pbar_n' = pbar_n)
          /\ pc[f] = "failed" => pc'[f] = "failed"]_vars
C18_Witness ==
    /\ main_pc = "summary"
    /\ Failed = Files
    /\ total_size_reduction = 0
    /\ pbar_n = 0
    /\ \E f \in Files :
          /\ error[f] \in {"exif", "utime", "remove"}
          /\ dst[f].exists
          /\ size_reduction[f] # 0

\* C19 (as stated): a job that failed at the metadata write or the timestamp
\* step leaves the destination on disk without the source's times, and the
\* source in place.
C19_NoRollbackNoTimes ==
    \A f \in Files :
        (pc[f] = "failed" /\ error[f] \in {"exif", "utime"}) =>
            /\ dst[f].exists
            /\ dst[f].stat # stamp[f]
            /\ src_exists[f]
\* C19 (amended): such a job leaves the destination on disk and the source in
\* place; after a metadata-write failure the destination has fresh times,
\* after a timestamp-step failure it has fresh times or already the source's.
C19_NoRollback ==
    \A f \in Files :
        (pc[f] = "failed" /\ error[f] \in {"exif", "utime"}) =>
            /\ dst[f].exists
            /\ src_exists[f]
            /\ error[f] = "exif" => dst[f].stat = FreshStat
            /\ error[f] = "utime" => dst[f].stat \in {FreshStat, stamp[f]}
C19_Witness ==
    /\ delete_original
    /\ \E f, g \in Files :
          /\ pc[f] = "failed" /\ error[f] = "exif"
          /\ dst[f].exists /\ dst[f].stat = FreshStat /\ src_exists[f]
          /\ pc[g] = "failed" /\ error[g] = "utime"
          /\ dst[g].exists /\ dst[g].stat = stamp[g] /\ src_exists[g]

\* The text the claim C13 describes: one line per entry, joined by newlines,
\* trailing whitespace removed.
LineOf(item) ==
    IF item[1] = "parameters" THEN item[2] ELSE <<item[1], ":", " ">> \o item[2]
RECURSIVE JoinLines(_)
JoinLines(m) ==
    IF m = <<>> THEN <<>>
    ELSE IF Len(m) = 1 THEN LineOf(m[1])
    ELSE LineOf(m[1]) \o <<"\n">> \o JoinLines(Tail(m))
Trimmed(t) ==
    LET n == CHOOSE k \in 0..Len(t) :
                 /\ k = 0 \/ t[k] \notin Whitespace
                 /\ \A j \in (k + 1)..Len(t) : t[j] \in Whitespace
    IN SubSeq(t, 1, n)

\* C13: the comment text is the entries' lines in insertion order joined by
\* newline with trailing whitespace removed, 'parameters' giving its value
\* alone and any other key 'key: value'; the two examples of the spec hold.
C13_CommentText ==
    cm_pc = "done" =>
        /\ png_info_data = Trimmed(JoinLines(info_items))
        /\ info_items = <<<<"parameters", <<"a, b, c">>>>>>
              => png_info_data = <<"a, b, c">>
        /\ info_items = <<<<"foo", <<"bar">>>>, <<"baz", <<"qux">>>>>>
              => png_info_data = <<"foo", ":", " ", "bar", "\n", "baz", ":", " ", "qux">>
C13_Witness ==
    /\ cm_pc = "done"
    /\ info_items = <<<<"parameters", <<"a, b, c">>>>, <<"foo", <<"qux", " ">>>>>>
    /\ png_info_data = <<"a, b, c", "\n", "foo", ":", " ", "qux">>

\* C14: for every non-negative byte count format_size returns a string whose
\* unit is the one of B, KB, MB, GB, TB that scales the count into [1, 1024)
\* (below 1024 for B); 1023 is in B, 1024 in KB, 1048576 in MB.
C14_UnitByMagnitude ==
    fs_pc = "returned" =>
        /\ ~fs_result.none
        /\ \E k \in 1..Len(Units) : Len(fs_input) = k /\ fs_result.unit = Units[k]
        /\ fs_input = <<1023>> => fs_result.unit = "B"
        /\ fs_input = <<0, 1>> => fs_result.unit = "KB"
        /\ fs_input = <<0, 0, 1>> => fs_result.unit = "MB"

====
